---- MODULE Spec2Model ----
(***************************************************************************)
(* Model of the document signing server of src/index.js: the /upload and   *)
(* /validate handlers, the signature trailer codec (addSignature,          *)
(* findLastTab, readFromLastTab, the ftruncate of findSignatureIndex), the *)
(* registry table `data` and the pg connection pool.                       *)
(*                                                                         *)
(* Bytes and characters are naturals (their codes).  A file is a sequence  *)
(* of bytes.  File offsets are 0-based as in the source; TLA+ sequences    *)
(* are 1-based, so byte `o` of a file f is f[o + 1].                       *)
(*                                                                         *)
(* Cryptography is idealised: sha256 is collision free, a key pair drawn   *)
(* by genKeyPair is fresh, and a signature verifies exactly when it was    *)
(* produced by the private key of the public key over the same hash.       *)
(***************************************************************************)
EXTENDS Naturals, Integers, Sequences, FiniteSets, TLC

(***************************************************************************)
(* Program constants.                                                      *)
(***************************************************************************)
\* const bufferSize = 1024 (findLastTab, readFromLastTab)
bufferSize == 1024

\* the delimiter '\n'
NL == 10

(***************************************************************************)
(* Bounds of the model.                                                    *)
(***************************************************************************)
\* requests the server receives in one behaviour
MaxReq == 3

\* requests of one behaviour under Spec, where they are served concurrently
MaxConcurrent == 2

\* blocks of bufferSize bytes a long document reaches
MaxBlocks == 1

(***************************************************************************)
(* Arithmetic and sequence helpers.                                        *)
(***************************************************************************)
Min(a, b) == IF a < b THEN a ELSE b

SetMax(S) == CHOOSE m \in S : \A n \in S : n <= m

\* n bytes, all equal to b
Fill(n, b) == [i \in 1..n |-> b]

(***************************************************************************)
(* node:fs and node:buffer primitives used by the codec.                   *)
(***************************************************************************)
\* Buffer.alloc(bufferSize): zero filled
BufferAlloc == Fill(bufferSize, 0)

\* fs.readSync(fd, buffer, 0, bufferSize, offset): the bytes of the file from
\* `offset`, at most bufferSize of them, none at or past the end of file
ReadSync(file, offset) ==
    IF offset >= Len(file) THEN <<>>
    ELSE SubSeq(file, offset + 1, Min(Len(file), offset + bufferSize))

\* the buffer after readSync has stored `chunk` at its start: the bytes past
\* the chunk keep what the previous read left there
BufferAfterRead(buffer, chunk) ==
    [i \in 1..Len(buffer) |-> IF i <= Len(chunk) THEN chunk[i] ELSE buffer[i]]

\* buffer.lastIndexOf(value, byteOffset): the search runs backwards from
\* byteOffset; a negative byteOffset counts from the end of the buffer
LastIndexOf(buffer, value, byteOffset) ==
    LET start == IF byteOffset < 0 THEN Len(buffer) + byteOffset
                 ELSE Min(byteOffset, Len(buffer) - 1)
        hits  == {i \in 0..start : buffer[i + 1] = value}
    IN  IF hits = {} THEN -1 ELSE SetMax(hits)

\* buffer.toString(): utf8 decoding; a byte that starts no valid sequence
\* decodes to U+FFFD (multi-byte sequences are outside the model's alphabet)
BufferToString(bytes) ==
    [i \in 1..Len(bytes) |-> IF bytes[i] < 128 THEN bytes[i] ELSE 65533]

\* the utf8 bytes fs.appendFileSync writes for a string of ASCII characters
Utf8Bytes(str) ==
    [i \in 1..Len(str) |-> str[i] % 256]

\* fs.ftruncate(fd, len): cuts the file at len, or extends it with zero bytes
\* when len is past the end of file
Ftruncate(file, len) ==
    IF len <= Len(file) THEN SubSeq(file, 1, len)
    ELSE file \o Fill(len - Len(file), 0)

(***************************************************************************)
(* Signature trailer codec.                                                *)
(***************************************************************************)
\* addSignature: appends '\n' and the signature to the file
addSignature(signature, file) ==
    file \o Utf8Bytes(<<NL>> \o signature)

\* the do-while loop of readFromLastTab; `lens` are the lengths of the slices
\* pushed so far.  Every slice is a view of the one buffer, so the string is
\* read from the buffer as the last read left it.
RECURSIVE ReadFromLastTabLoop(_, _, _, _)
ReadFromLastTabLoop(file, buffer, lens, offset) ==
    LET chunk     == ReadSync(file, offset)
        bytesRead == Len(chunk)
        buffer2   == BufferAfterRead(buffer, chunk)
        lens2     == Append(lens, bytesRead)
    IN  IF bytesRead = bufferSize
        THEN ReadFromLastTabLoop(file, buffer2, lens2, offset + bytesRead)
        ELSE [buffer |-> buffer2, lens |-> lens2]

RECURSIVE ConcatSlices(_, _, _)
ConcatSlices(buffer, lens, i) ==
    IF i > Len(lens) THEN <<>>
    ELSE SubSeq(buffer, 1, lens[i]) \o ConcatSlices(buffer, lens, i + 1)

readFromLastTab(file, lastTabPosition) ==
    LET r == ReadFromLastTabLoop(file, BufferAlloc, <<>>, lastTabPosition + 1)
    IN  BufferToString(ConcatSlices(r.buffer, r.lens, 1))

\* the do-while loop of findLastTab: the value of lastTabPosition at its exit
RECURSIVE FindLastTabLoop(_, _, _, _)
FindLastTabLoop(file, buffer, lastTabPosition, offset) ==
    LET chunk        == ReadSync(file, offset)
        bytesRead    == Len(chunk)
        buffer2      == BufferAfterRead(buffer, chunk)
        newlineIndex == LastIndexOf(buffer2, NL, bytesRead - 1)
        position2    == IF newlineIndex # -1 THEN offset + newlineIndex
                        ELSE lastTabPosition
    IN  IF bytesRead = bufferSize
        THEN FindLastTabLoop(file, buffer2, position2, offset + bytesRead)
        ELSE position2

\* the result of findLastTab when it finds no delimiter
Null == [found |-> FALSE, signature |-> <<>>, position |-> -1]

findLastTab(file) ==
    LET lastTabPosition == FindLastTabLoop(file, BufferAlloc, -1, 0)
    IN  IF lastTabPosition # -1
        THEN [found     |-> TRUE,
              signature |-> readFromLastTab(file, lastTabPosition),
              position  |-> lastTabPosition]
        ELSE Null

(***************************************************************************)
(* Documents of the model.                                                 *)
(***************************************************************************)
\* the offset of the last '\n' of a byte sequence, -1 when it has none
LastNL(bytes) ==
    LET hits == {i \in 1..Len(bytes) : bytes[i] = NL}
    IN  IF hits = {} THEN -1 ELSE SetMax(hits) - 1

HasNL(bytes) == LastNL(bytes) # -1

\* the trailer of a file: its last '\n' and every byte after it
Trailer(bytes) == SubSeq(bytes, LastNL(bytes) + 1, Len(bytes))

\* the bytes before the last '\n'
Content(bytes) == SubSeq(bytes, 1, LastNL(bytes))

(***************************************************************************)
(* Digest engine and key service (idealised).                              *)
(***************************************************************************)
\* generateHash: the sha256 digest of the bytes of the file; collision free
generateHash(bytes) == [sha256 |-> bytes]

HexDigits == {48, 49, 50, 51, 52, 53, 54, 55, 56, 57, 97, 98, 99, 100, 101, 102}

\* the hex digit of n < 16, and its value
HexChar(n) == IF n < 10 THEN 48 + n ELSE 87 + n

HexVal(c) == IF c < 58 THEN c - 48 ELSE c - 87

\* keys.getPublic().encode('hex'): "04" and the point of private scalar d
PublicHex(d) == <<48, 52, HexChar(d)>>

\* generateKeys: ec.genKeyPair() draws a fresh scalar; n counts the pairs drawn
generateKeys(n) == [privateKey |-> n + 1, publicKey |-> PublicHex(n + 1)]

\* signature.toDER('hex'): "30" and the body of the signature.  elliptic
\* derives the nonce from the key and the message, and a key signs once, so
\* the private scalar identifies the signature.
ToDER(d) == <<51, 48, HexChar(d)>>

\* Signature._importDER accepts the string
IsDER(str) ==
    /\ Len(str) = 3
    /\ str[1] = 51
    /\ str[2] = 48
    /\ str[3] \in HexDigits

FromDER(str) == HexVal(str[3])

\* cipherHash: key.sign(hash).toDER('hex')
cipherHash(privateKey, hash) == ToDER(privateKey)

\* key.verify(hash, signature) for a signature that parses: true exactly when
\* the signature was issued by the private key of publicKey over this hash;
\* `issued` is the set of [privateKey, hash] pairs signed so far
KeyVerify(publicKey, hash, signature, issued) ==
    /\ PublicHex(FromDER(signature)) = publicKey
    /\ [privateKey |-> FromDER(signature), hash |-> hash] \in issued

(***************************************************************************)
(* State.                                                                  *)
(***************************************************************************)
VARIABLES
    running,    \* the node process is alive
    fs,         \* the files on disk: path -> bytes, a path is <<directory, name>>
    registry,   \* the rows of table `data`, in insertion order
    held,       \* pool clients acquired and not released
    keyCount,   \* key pairs ec.genKeyPair has drawn
    req,        \* the requests: id -> the locals of its handler
    codec       \* the trailer codec run on its own (SpecCodec)

vars == <<running, fs, registry, held, keyCount, req, codec>>

serverVars == <<running, fs, registry, held, keyCount, req>>

(***************************************************************************)
(* Inputs of the model.                                                    *)
(***************************************************************************)
\* file.originalname of an upload
Names == {"a.txt", "b.txt"}

\* the name of every upload under SpecSeq: each request finds at its path the
\* file the request before it left there
SeqNames == {"a.txt"}

\* a document of k blocks whose signed form ends exactly at a block boundary
BlockDoc(k) == Fill(k * bufferSize - 1 - Len(ToDER(0)), 104)

\* documents a client holds: empty, one byte, one with a '\n' inside, and
\* long ones
Docs ==
    {<<>>, <<104>>, <<104, NL, 105>>}
        \cup {BlockDoc(k) : k \in 1..MaxBlocks}

ReqIds == 1..MaxReq

\* texts of res.send (transliterated)
SignatureValid == "Podpis verna"

SignatureInvalid == "Podpis neverna"

SearchError == "Oshibka pri poiske podpisi"

\* the locals of a handler that has not started
NoRequest ==
    [kind          |-> "none",
     name          |-> "",
     body          |-> <<>>,     \* the bytes the client sent
     pc            |-> "idle",
     hash          |-> <<>>,     \* <<hash>> once generateHash has resolved
     keys          |-> <<>>,     \* <<keys>> once generateKeys has returned
     signature     |-> <<>>,     \* <<signature>> once cipherHash has returned
     signatureInfo |-> Null,     \* the result of findLastTab
     publicKey     |-> <<>>,     \* <<publicKey>> once findInDB has resolved
     io            |-> "ok",     \* the I/O or query failure this request met
     error         |-> "none",   \* the exception that ended the handler
     response      |-> <<>>]     \* the responses sent, in order

\* no continuation of the request is pending
Settled(r) == req[r].pc \in {"idle", "done", "hung", "rejected", "crashed"}

InFlight == {r \in ReqIds : ~Settled(r)}

\* storageUploads / storageVerify: destination and filename of the stored file
UploadPath(name) == <<"uploads", name>>

VerifyPath(name) == <<"downloads", name>>

PathOf(r) ==
    IF req[r].kind = "upload" THEN UploadPath(req[r].name)
    ELSE VerifyPath(req[r].name)

\* multer's disk storage writes the uploaded bytes to the path, replacing
\* what was there
WriteFile(path, bytes) == (path :> bytes) @@ fs

\* files /upload has sent back
Returned ==
    {req[u].response[1].file :
        u \in {x \in ReqIds : /\ req[x].kind = "upload"
                              /\ req[x].pc = "done"
                              /\ Len(req[x].response) = 1}}

\* a returned file whose unsigned content was replaced by another document
Tampered ==
    {d \o Trailer(f) : d \in Docs, f \in {x \in Returned : HasNL(x)}} \ Returned

\* files a client may submit to /validate
ClientFiles == Docs \cup Returned \cup Tampered

\* the [privateKey, hash] pairs signed so far
Issued ==
    {[privateKey |-> req[u].keys[1].privateKey, hash |-> req[u].hash[1]] :
        u \in {x \in ReqIds : req[x].kind = "upload" /\ req[x].signature # <<>>}}

Text(status, text) == [status |-> status, text |-> text, file |-> <<>>]

File(bytes) == [status |-> 200, text |-> "", file |-> bytes]

(***************************************************************************)
(* Initial state: no request received, no file stored, empty registry.     *)
(***************************************************************************)
CodecIdle == [pc |-> "idle", doc |-> <<>>, sig |-> <<>>, file |-> <<>>,
              info |-> Null]

Init ==
    /\ running = TRUE
    /\ fs = <<>>
    /\ registry = <<>>
    /\ held = 0
    /\ keyCount = 0
    /\ req = [r \in ReqIds |-> NoRequest]
    /\ codec = CodecIdle

(***************************************************************************)
(* Failure of a handler.                                                   *)
(***************************************************************************)
\* an exception inside an async handler rejects its promise, which nothing
\* handles: no response is sent; node either ends the process (the default
\* since node 15) or only warns, as `exits` says
UnhandledRejection(r, io, error, exits) ==
    /\ req' = [req EXCEPT ![r] = [@ EXCEPT !.pc = "rejected", !.io = io,
                                           !.error = error]]
    /\ running' = ~exits

\* an exception inside a plain callback is uncaught: the process ends
UncaughtException(r, io, error) ==
    /\ req' = [req EXCEPT ![r] = [@ EXCEPT !.pc = "crashed", !.io = io,
                                           !.error = error]]
    /\ running' = FALSE

\* r is the next request id, of at most `last` requests with at most `limit`
\* of them in flight
Accepts(r, last, limit) ==
    /\ running
    /\ r <= last
    /\ req[r].pc = "idle"
    /\ IF r = 1 THEN TRUE ELSE req[r - 1].pc # "idle"
    /\ Cardinality(InFlight) < limit

(***************************************************************************)
(* POST /upload                                                            *)
(***************************************************************************)
\* upload.single('document') stores the file; saveDocument
UploadReceive(r, name, body, last, limit) ==
    /\ Accepts(r, last, limit)
    /\ fs' = WriteFile(UploadPath(name), body)
    /\ req' = [req EXCEPT ![r] = [NoRequest EXCEPT !.kind = "upload",
                                   !.name = name, !.body = body, !.pc = "hash"]]
    /\ UNCHANGED <<running, registry, held, keyCount, codec>>

\* await generateHash(newDocument.path); generateKeys().  When the read
\* stream reports an error the promise of generateHash rejects and the
\* handler ends there.
UploadHash(r) ==
    /\ running
    /\ req[r].kind = "upload" /\ req[r].pc = "hash"
    /\ \E readFails \in BOOLEAN :
        IF readFails
        THEN /\ \E exits \in BOOLEAN :
                    UnhandledRejection(r, "read", "ReadError", exits)
             /\ UNCHANGED keyCount
        ELSE /\ req' = [req EXCEPT ![r] = [@ EXCEPT
                          !.hash = <<generateHash(fs[PathOf(r)])>>,
                          !.keys = <<generateKeys(keyCount)>>,
                          !.pc = "saveInDB"]]
             /\ keyCount' = keyCount + 1
             /\ UNCHANGED running
    /\ UNCHANGED <<fs, registry, held, codec>>

\* the INSERT changed into an upsert: the row replaces the rows of its hash
InsertRow_Upsert(rows, publicKey, hash) ==
    Append(SelectSeq(rows, LAMBDA row : row.hash # hash),
           [public_key |-> publicKey, hash |-> hash])

\* the rows after INSERT INTO data(public_key, hash)
InsertRow(rows, publicKey, hash) ==
    Append(rows, [public_key |-> publicKey, hash |-> hash])

\* saveInDB changed so that the handler goes on without the INSERT
UploadSaveInDB_NoInsert(r) ==
    /\ running
    /\ req[r].kind = "upload" /\ req[r].pc = "saveInDB"
    /\ req' = [req EXCEPT ![r] = [@ EXCEPT !.pc = "sign"]]
    /\ UNCHANGED <<running, fs, registry, held, keyCount, codec>>

\* saveInDB changed so that it swallows the failure of the query and returns
UploadSaveInDB_Swallows(r) ==
    /\ running
    /\ req[r].kind = "upload" /\ req[r].pc = "saveInDB"
    /\ \E queryFails \in BOOLEAN :
        IF queryFails
        THEN /\ held' = held + 1
             /\ req' = [req EXCEPT ![r] = [@ EXCEPT !.pc = "sign",
                                                    !.io = "query"]]
             /\ UNCHANGED <<running, fs, registry, keyCount, codec>>
        ELSE /\ registry' = InsertRow(registry, req[r].keys[1].publicKey,
                                      req[r].hash[1])
             /\ req' = [req EXCEPT ![r] = [@ EXCEPT !.pc = "sign"]]
             /\ UNCHANGED <<running, fs, held, keyCount, codec>>

\* await saveInDB(keys.publicKey, hash): the client is acquired, the INSERT
\* runs and the client is released; when the query fails the exception
\* leaves saveInDB before client.release()
UploadSaveInDB(r) ==
    /\ running
    /\ req[r].kind = "upload" /\ req[r].pc = "saveInDB"
    /\ \E queryFails \in BOOLEAN :
        IF queryFails
        THEN /\ held' = held + 1
             /\ \E exits \in BOOLEAN :
                    UnhandledRejection(r, "query", "QueryError", exits)
             /\ UNCHANGED <<fs, registry, keyCount, codec>>
        ELSE /\ registry' = InsertRow(registry, req[r].keys[1].publicKey,
                                      req[r].hash[1])
             /\ req' = [req EXCEPT ![r] = [@ EXCEPT !.pc = "sign"]]
             /\ UNCHANGED <<running, fs, held, keyCount, codec>>

\* cipherHash(keys.privateKey, hash); addSignature(signature, path);
\* res.download(path) is called.  When fs.appendFileSync throws, the handler
\* ends there with the file as it was.
UploadSign(r) ==
    /\ running
    /\ req[r].kind = "upload" /\ req[r].pc = "sign"
    /\ LET signature == cipherHash(req[r].keys[1].privateKey, req[r].hash[1])
       IN  \E appendFails \in BOOLEAN :
            IF appendFails
            THEN /\ \E exits \in BOOLEAN :
                        UnhandledRejection(r, "append", "AppendError", exits)
                 /\ UNCHANGED fs
            ELSE /\ fs' = WriteFile(PathOf(r),
                                    addSignature(signature, fs[PathOf(r)]))
                 /\ req' = [req EXCEPT ![r] = [@ EXCEPT
                                !.signature = <<signature>>,
                                !.pc = "download"]]
                 /\ UNCHANGED running
    /\ UNCHANGED <<registry, held, keyCount, codec>>

\* res.download streams the file at the path to the client
UploadDownload(r) ==
    /\ running
    /\ req[r].kind = "upload" /\ req[r].pc = "download"
    /\ req' = [req EXCEPT ![r] = [@ EXCEPT
                  !.response = Append(@, File(fs[PathOf(r)])),
                  !.pc = "done"]]
    /\ UNCHANGED <<running, fs, registry, held, keyCount, codec>>

(***************************************************************************)
(* POST /validate                                                          *)
(***************************************************************************)
\* verify.single('document') stores the file; saveDocument;
\* findSignatureIndex calls fs.open
ValidateReceive(r, name, body, last, limit) ==
    /\ Accepts(r, last, limit)
    /\ fs' = WriteFile(VerifyPath(name), body)
    /\ req' = [req EXCEPT ![r] = [NoRequest EXCEPT !.kind = "validate",
                                   !.name = name, !.body = body, !.pc = "open"]]
    /\ UNCHANGED <<running, registry, held, keyCount, codec>>

\* the callback of fs.open: its err is not looked at, so after a failed open
\* findLastTab calls fs.readSync(undefined, ...), which throws; otherwise
\* findLastTab scans the file and fs.ftruncate or fs.close is called
ValidateOpen(r) ==
    /\ running
    /\ req[r].kind = "validate" /\ req[r].pc = "open"
    /\ \E openFails \in BOOLEAN :
        IF openFails
        THEN UncaughtException(r, "open", "TypeError")
        ELSE LET signatureInfo == findLastTab(fs[PathOf(r)])
             IN  /\ req' = [req EXCEPT ![r] = [@ EXCEPT
                               !.signatureInfo = signatureInfo,
                               !.pc = IF signatureInfo.found THEN "ftruncate"
                                      ELSE "closeNoSignature"]]
                 /\ UNCHANGED running
    /\ UNCHANGED <<fs, registry, held, keyCount, codec>>

\* fs.ftruncate(fd, signatureInfo.position) completes; its err is not looked
\* at; fs.close is called
ValidateFtruncate(r) ==
    /\ running
    /\ req[r].kind = "validate" /\ req[r].pc = "ftruncate"
    /\ \E truncateFails \in BOOLEAN :
        IF truncateFails
        THEN /\ req' = [req EXCEPT ![r] = [@ EXCEPT !.io = "ftruncate",
                                                    !.pc = "close"]]
             /\ UNCHANGED fs
        ELSE /\ req' = [req EXCEPT ![r] = [@ EXCEPT !.pc = "close"]]
             /\ fs' = WriteFile(PathOf(r),
                          Ftruncate(fs[PathOf(r)], req[r].signatureInfo.position))
    /\ UNCHANGED <<running, registry, held, keyCount, codec>>

\* the callback of fs.close after the truncation: callback(err), which
\* answers 500, or callback(null, signatureInfo.signature), which starts
\* generateHash
ValidateClose(r) ==
    /\ running
    /\ req[r].kind = "validate" /\ req[r].pc = "close"
    /\ \E closeFails \in BOOLEAN :
        IF closeFails
        THEN req' = [req EXCEPT ![r] = [@ EXCEPT !.io = "close",
                        !.response = Append(@, Text(500, SearchError)),
                        !.pc = "done"]]
        ELSE req' = [req EXCEPT ![r] = [@ EXCEPT
                        !.signature = <<req[r].signatureInfo.signature>>,
                        !.pc = "hash"]]
    /\ UNCHANGED <<running, fs, registry, held, keyCount, codec>>

\* the callback of fs.close when findLastTab returned null: callback(err)
\* when the close failed, and nothing otherwise
ValidateCloseNoSignature(r) ==
    /\ running
    /\ req[r].kind = "validate" /\ req[r].pc = "closeNoSignature"
    /\ \E closeFails \in BOOLEAN :
        IF closeFails
        THEN req' = [req EXCEPT ![r] = [@ EXCEPT !.io = "close",
                        !.response = Append(@, Text(500, SearchError)),
                        !.pc = "done"]]
        ELSE req' = [req EXCEPT ![r] = [@ EXCEPT !.pc = "hung"]]
    /\ UNCHANGED <<running, fs, registry, held, keyCount, codec>>

\* await generateHash(newDocument.path); a read error rejects the promise
\* and the callback ends there
ValidateHash(r) ==
    /\ running
    /\ req[r].kind = "validate" /\ req[r].pc = "hash"
    /\ \E readFails \in BOOLEAN :
        IF readFails
        THEN \E exits \in BOOLEAN :
                UnhandledRejection(r, "read", "ReadError", exits)
        ELSE /\ req' = [req EXCEPT ![r] = [@ EXCEPT
                          !.hash = <<generateHash(fs[PathOf(r)])>>,
                          !.pc = "findInDB"]]
             /\ UNCHANGED running
    /\ UNCHANGED <<fs, registry, held, keyCount, codec>>

\* SELECT * FROM data WHERE hash = $1: the indices of the rows selected
SelectByHash(rows, hash) == {i \in 1..Len(rows) : rows[i].hash = hash}

\* findInDB: the values info.rows[0].public_key can take.  The SELECT has no
\* ORDER BY, so any selected row can come first; with no row selected
\* info.rows is [] and info.rows[0].public_key throws a TypeError (the empty
\* set here).
findInDB(rows, hash) == {rows[i].public_key : i \in SelectByHash(rows, hash)}

\* await findInDB(hash); ec.keyFromPublic; key.verify; res.send
ValidateFindInDB(r) ==
    /\ running
    /\ req[r].kind = "validate" /\ req[r].pc = "findInDB"
    /\ \E queryFails \in BOOLEAN :
        IF queryFails
        THEN /\ held' = held + 1
             /\ \E exits \in BOOLEAN :
                    UnhandledRejection(r, "query", "QueryError", exits)
        ELSE /\ UNCHANGED held
             /\ IF findInDB(registry, req[r].hash[1]) = {}
                THEN \E exits \in BOOLEAN :
                        UnhandledRejection(r, req[r].io, "TypeError", exits)
                ELSE \E publicKey \in findInDB(registry, req[r].hash[1]) :
                    IF ~IsDER(req[r].signature[1])
                    THEN \E exits \in BOOLEAN :
                            UnhandledRejection(r, req[r].io, "SignatureError",
                                               exits)
                    ELSE /\ req' = [req EXCEPT ![r] = [@ EXCEPT
                               !.publicKey = <<publicKey>>,
                               !.response = Append(@, Text(200,
                                   IF KeyVerify(publicKey, req[r].hash[1],
                                                req[r].signature[1], Issued)
                                   THEN SignatureValid ELSE SignatureInvalid)),
                               !.pc = "done"]]
                         /\ UNCHANGED running
    /\ UNCHANGED <<fs, registry, keyCount, codec>>

(***************************************************************************)
(* The server.                                                             *)
(***************************************************************************)
\* a request arrives
Receive(r, names, last, limit) ==
    \/ \E name \in names, body \in Docs :
            UploadReceive(r, name, body, last, limit)
    \/ \E name \in names, body \in ClientFiles :
            ValidateReceive(r, name, body, last, limit)

\* a continuation of request r runs
Step(r) ==
    \/ UploadHash(r)
    \/ UploadSaveInDB(r)
    \/ UploadSign(r)
    \/ UploadDownload(r)
    \/ ValidateOpen(r)
    \/ ValidateFtruncate(r)
    \/ ValidateClose(r)
    \/ ValidateCloseNoSignature(r)
    \/ ValidateHash(r)
    \/ ValidateFindInDB(r)

\* requests are served concurrently
Next ==
    \E r \in ReqIds :
        Receive(r, Names, MaxConcurrent, MaxConcurrent) \/ Step(r)

Spec == Init /\ [][Next]_vars

\* a request arrives only when every earlier one has settled
NextSeq == \E r \in ReqIds : Receive(r, SeqNames, MaxReq, 1) \/ Step(r)

SpecSeq == Init /\ [][NextSeq]_vars

(***************************************************************************)
(* The trailer codec on its own: addSignature on a file holding a document,*)
(* then the scan and truncation of findSignatureIndex, with no I/O failure.*)
(***************************************************************************)
\* documents given to the codec: those of the server, some with the '\n' at
\* other places, and documents ending near a block boundary
CodecDocs ==
    Docs \cup {<<NL>>, <<104, NL>>, <<NL, 104>>}
         \cup {Fill(k * bufferSize - j, 104) : k \in 1..MaxBlocks, j \in 0..3}

\* signature strings without '\n': empty, short, three DER strings, and one
\* longer than a block
CodecSigs ==
    {<<>>, <<51>>, <<51, 48>>, ToDER(1), ToDER(2), ToDER(10),
     Fill(bufferSize, 97) \o <<98>>}

InitCodec ==
    /\ running = TRUE
    /\ fs = <<>>
    /\ registry = <<>>
    /\ held = 0
    /\ keyCount = 0
    /\ req = [r \in ReqIds |-> NoRequest]
    /\ codec \in {[pc |-> "written", doc |-> d, sig |-> s, file |-> d,
                   info |-> Null] : d \in CodecDocs, s \in CodecSigs}

CodecAddSignature ==
    /\ codec.pc = "written"
    /\ codec' = [codec EXCEPT !.file = addSignature(codec.sig, codec.file),
                              !.pc = "signed"]
    /\ UNCHANGED serverVars

\* findSignatureIndex when every fs call succeeds: the file after it and the
\* result of findLastTab, whose signature goes to the callback
findSignatureIndex(file) ==
    LET signatureInfo == findLastTab(file)
    IN  [info |-> signatureInfo,
         file |-> IF signatureInfo.found
                  THEN Ftruncate(file, signatureInfo.position) ELSE file]

CodecFindSignatureIndex ==
    /\ codec.pc = "signed"
    /\ codec' = [codec EXCEPT !.info = findSignatureIndex(codec.file).info,
                              !.file = findSignatureIndex(codec.file).file,
                              !.pc = "stripped"]
    /\ UNCHANGED serverVars

NextCodec == CodecAddSignature \/ CodecFindSignatureIndex

SpecCodec == InitCodec /\ [][NextCodec]_vars

(***************************************************************************)
(* Claims.                                                                 *)
(***************************************************************************)
Uploads == {r \in ReqIds : req[r].kind = "upload"}

Validates == {r \in ReqIds : req[r].kind = "validate"}

\* /upload has sent the file back
Downloaded(u) ==
    /\ req[u].kind = "upload"
    /\ req[u].pc = "done"
    /\ Len(req[u].response) = 1

\* /validate is over (no continuation is pending) and met no I/O or query
\* failure
Validated(v) ==
    /\ req[v].kind = "validate"
    /\ Settled(v)
    /\ req[v].io = "ok"

Verdicts == {SignatureValid, SignatureInvalid}

\* the request has ended with exactly this answer
Answered(r, text) ==
    /\ Len(req[r].response) = 1
    /\ req[r].response[1].text = text

\* the request has ended with one answer that is not a verdict
AnsweredNoVerdict(r) ==
    /\ Len(req[r].response) = 1
    /\ req[r].response[1].file = <<>>
    /\ req[r].response[1].text \notin Verdicts

\* no request was received after r
Latest(r) == IF r = MaxReq THEN TRUE ELSE req[r + 1].pc = "idle"

\* C1 (SpecSeq): round trip.  When /validate is given exactly the bytes an
\* earlier /upload returned, it ends with the answer "signature valid".
C1_RoundTrip ==
    \A u \in ReqIds, v \in ReqIds :
        (/\ Downloaded(u)
         /\ Validated(v)
         /\ req[v].body = req[u].response[1].file)
            => Answered(v, SignatureValid)

\* C2 (SpecSeq): tamper sensitivity.  When /validate is given a returned file
\* whose bytes before the final '\n' were replaced by different bytes, it ends
\* with the answer "signature invalid" and raises no exception.
C2_TamperIsInvalid ==
    \A u \in ReqIds, v \in ReqIds :
        (/\ Downloaded(u)
         /\ Validated(v)
         /\ HasNL(req[u].response[1].file)
         /\ HasNL(req[v].body)
         /\ Trailer(req[v].body) = Trailer(req[u].response[1].file)
         /\ Content(req[v].body) # Content(req[u].response[1].file))
            => /\ Answered(v, SignatureInvalid)
               /\ req[v].error = "none"

\* C3 (SpecSeq): missing signature.  When /validate is given a file with no
\* '\n', it ends with one answer that is not a verdict, and the stored file
\* still holds the bytes received.
C3_MissingSignatureReported ==
    \A v \in ReqIds :
        (/\ Validated(v)
         /\ ~HasNL(req[v].body))
            => /\ AnsweredNoVerdict(v)
               /\ Latest(v) => fs[PathOf(v)] = req[v].body

\* C4 (SpecSeq): registry miss.  When the registry has no row for the hash of
\* the stripped file, findInDB raises nothing and /validate ends with one
\* answer that is not a verdict.
C4_RegistryMissReported ==
    \A v \in ReqIds :
        (/\ Validated(v)
         /\ req[v].hash # <<>>
         /\ SelectByHash(registry, req[v].hash[1]) = {})
            => /\ req[v].error = "none"
               /\ AnsweredNoVerdict(v)

\* C5 (SpecCodec): trailer codec round trip.  After addSignature(s) on a file
\* holding D, findSignatureIndex finds the last '\n' at offset Len(D), within
\* the file, yields s as the signature and leaves exactly D in the file.
C5_CodecRoundTrip ==
    codec.pc = "stripped"
        => /\ codec.info.found
           /\ codec.info.position = Len(codec.doc)
           /\ codec.info.position <= Len(codec.doc) + 1 + Len(codec.sig)
           /\ codec.info.signature = codec.sig
           /\ codec.file = codec.doc

\* C6 (Spec): request isolation.  Every step of a request works on the bytes
\* that request received: /upload hashes its own bytes and returns them
\* followed by '\n' and the signature it issued over their hash; /validate
\* scans its own bytes and hashes them cut at the position it found.
C6_RequestIsolation ==
    /\ \A u \in Uploads :
        /\ req[u].hash # <<>> => req[u].hash[1] = generateHash(req[u].body)
        /\ Downloaded(u) =>
            /\ req[u].response[1].file
                    = req[u].body \o <<NL>> \o req[u].signature[1]
            /\ [privateKey |-> req[u].keys[1].privateKey,
                hash       |-> generateHash(req[u].body)] \in Issued
    /\ \A v \in Validates :
        req[v].io = "ok" =>
            /\ req[v].pc \notin {"open", "crashed"}
                => req[v].signatureInfo = findLastTab(req[v].body)
            /\ req[v].hash # <<>>
                => req[v].hash[1] = generateHash(
                        Ftruncate(req[v].body, req[v].signatureInfo.position))

\* C7 (SpecSeq): process availability.  After a request has failed (an
\* exception, no answer, or an error answer), the process is still running.
C7_ProcessAvailable ==
    (\E r \in ReqIds :
        \/ req[r].pc \in {"crashed", "rejected", "hung"}
        \/ /\ req[r].pc = "done"
           /\ req[r].response[1].status = 500)
        => running

\* C8 (SpecSeq): failures are surfaced.  A request that is over has sent
\* exactly one response.
C8_OneResponse ==
    \A r \in ReqIds :
        (Settled(r) /\ req[r].pc # "idle") => Len(req[r].response) = 1

\* C9 (SpecSeq): duplicate-hash lookup policy.  For every hash in the registry
\* the registry contents determine the one public key findInDB returns.
C9_LookupDeterministic ==
    \A i \in 1..Len(registry) :
        Cardinality(findInDB(registry, registry[i].hash)) = 1

\* C10 (Spec): trailer format.  The file /upload returns is the uploaded
\* bytes, then one '\n', then the hex DER signature, and nothing else.
C10_TrailerFormat ==
    \A u \in ReqIds :
        Downloaded(u) =>
            LET file == req[u].response[1].file
                n    == Len(req[u].body)
            IN  /\ Len(file) = n + 1 + Len(req[u].signature[1])
                /\ SubSeq(file, 1, n) = req[u].body
                /\ file[n + 1] = NL
                /\ SubSeq(file, n + 2, Len(file)) = req[u].signature[1]
                /\ IsDER(SubSeq(file, n + 2, Len(file)))

(***************************************************************************)
(* Claims on the order and the effects of the steps.                       *)
(***************************************************************************)
\* the registry has the row /upload u inserts
HasRow(u) ==
    \E i \in 1..Len(registry) :
        /\ registry[i].public_key = req[u].keys[1].publicKey
        /\ registry[i].hash = req[u].hash[1]

\* where the locals of /upload u stand, by its position
UploadOrderState(u) ==
    /\ req[u].pc = "hash"
        => /\ req[u].hash = <<>> /\ req[u].keys = <<>>
           /\ req[u].signature = <<>> /\ req[u].response = <<>>
    /\ req[u].pc = "saveInDB"
        => /\ req[u].hash # <<>> /\ req[u].keys # <<>>
           /\ ~HasRow(u)
           /\ req[u].signature = <<>> /\ req[u].response = <<>>
    /\ req[u].pc = "sign"
        => /\ HasRow(u)
           /\ req[u].signature = <<>> /\ req[u].response = <<>>
    /\ req[u].pc = "download"
        => /\ HasRow(u)
           /\ req[u].signature
                = <<cipherHash(req[u].keys[1].privateKey, req[u].hash[1])>>
           /\ req[u].response = <<>>
    /\ req[u].response # <<>>
        => /\ req[u].pc = "done"
           /\ HasRow(u)
           /\ req[u].signature # <<>>

\* what one step of /upload u does to the file and to the position
UploadOrderStep(u) ==
    /\ req[u].pc = "hash"
        => /\ fs' = fs
           /\ \/ req'[u].pc = "rejected"
              \/ /\ req'[u].hash = <<generateHash(fs[PathOf(u)])>>
                 /\ req'[u].pc = "saveInDB"
    /\ req[u].pc = "saveInDB"
        => /\ fs' = fs
           /\ req'[u].pc \in {"sign", "rejected"}
    /\ req[u].pc = "sign"
        => \/ /\ req'[u].pc = "rejected"
              /\ fs' = fs
           \/ /\ req'[u].pc = "download"
              /\ fs' = WriteFile(PathOf(u),
                        fs[PathOf(u)] \o <<NL>> \o req'[u].signature[1])
    /\ req[u].pc = "download"
        => /\ fs' = fs
           /\ req'[u].response = <<File(fs[PathOf(u)])>>
           /\ req'[u].pc = "done"

\* C11 (Spec): hash-before-signature ordering.  The steps of every /upload
\* run in the order hash and key generation, registry put, sign and append,
\* respond; the steps before the append leave the file as it is, the one step
\* after it (the response) leaves the file as it is and sends it, and the
\* append adds '\n' and the signature at the end of the file.
C11_UploadOrder ==
    /\ [](\A u \in Uploads : UploadOrderState(u))
    /\ [][\A u \in Uploads : req'[u] # req[u] => UploadOrderStep(u)]_vars

\* an /upload has run all its steps
C11_Witness == \E u \in ReqIds : Downloaded(u) /\ HasRow(u)

\* C12 (SpecSeq): strip-before-hash ordering.  Whenever /validate has
\* computed its hash, the hash is the one of the uploaded bytes cut at their
\* last '\n': the trailer was removed before the file was read for hashing,
\* also when fs.ftruncate reported an error.
C12_StripBeforeHash ==
    \A v \in Validates :
        req[v].hash # <<>>
            => /\ HasNL(req[v].body)
               /\ req[v].hash[1] = generateHash(Content(req[v].body))

\* the append of the trailer has been done for upload u
Appended(u) == req[u].pc \in {"download", "done"}

\* upload u is past its registry put
PutDone(u) == req[u].keys # <<>> /\ HasRow(u)

\* what a failed upload leaves behind, by the step that failed
UploadAbortState(u) ==
    /\ req[u].io # "ok" => req[u].pc = "rejected"
    /\ req[u].pc = "rejected"
        => /\ req[u].response = <<>>
           /\ req[u].signature = <<>>
           /\ req[u].io \in {"read", "query", "append"}
           /\ req[u].io = "read" => req[u].hash = <<>> /\ req[u].keys = <<>>
           /\ req[u].io = "query" => ~PutDone(u)
           /\ req[u].io = "append" => PutDone(u)
    /\ (PutDone(u) /\ ~Appended(u))
        => \/ req[u].pc = "sign"
           \/ req[u].pc = "rejected" /\ req[u].io = "append"

\* a failed upload takes no further step, and the step that fails leaves
\* the registry and the files as they were
UploadAbortStep(u) ==
    /\ req[u].pc = "rejected" => req'[u] = req[u]
    /\ (req[u].pc # "rejected" /\ req'[u].pc = "rejected")
        => registry' = registry /\ fs' = fs

\* C13 (Spec): abort on failure in signing.  A step of /upload that fails
\* ends the request: no later step of it runs and no response is sent.  A
\* failure of the read or of the INSERT leaves registry and file as they
\* were, and a registry row of an upload whose file has not received the
\* trailer belongs to an upload that is between the put and the append or
\* that failed in the append.
C13_AbortOnFailure ==
    /\ [](\A u \in Uploads : UploadAbortState(u))
    /\ [][\A u \in Uploads : UploadAbortStep(u)]_vars

C13_Witness ==
    \E u \in ReqIds, w \in ReqIds :
        /\ req[u].kind = "upload" /\ req[u].pc = "rejected"
        /\ req[u].io = "append" /\ PutDone(u)
        /\ req[w].kind = "upload" /\ req[w].pc = "rejected"
        /\ req[w].io = "query"

\* the uploads received before v that put a registry row for hash h
SignedBefore(v, h) ==
    {u \in Uploads : u < v /\ req[u].hash = <<h>> /\ PutDone(u)}

\* the signature the trailer of a submitted file carries
TrailerSignature(bytes) == Tail(Trailer(bytes))

\* v was given a file whose stripped content has a registry entry and whose
\* trailer is a well-formed signature other than the one the most recently
\* registered key of that content produces over its hash
WrongSignature(v) ==
    /\ HasNL(req[v].body)
    /\ IsDER(TrailerSignature(req[v].body))
    /\ LET h == generateHash(Content(req[v].body))
       IN  /\ SignedBefore(v, h) # {}
           /\ TrailerSignature(req[v].body) #
                cipherHash(req[SetMax(SignedBefore(v, h))].keys[1].privateKey,
                           h)

\* C14 (SpecSeq): a wrong signature is a verdict, not a fault.  When the
\* stripped content of the file has a registry entry and the trailer is a
\* well-formed signature that the registered key did not produce over that
\* hash (it comes from another signed document or from an earlier signing of
\* the same content), /validate answers "signature invalid" and raises no
\* exception.
C14_WrongSignatureIsInvalid ==
    \A v \in Validates :
        (Validated(v) /\ WrongSignature(v))
            => /\ Answered(v, SignatureInvalid)
               /\ req[v].error = "none"

\* the rows of the registry that carry the public key of upload u
RowsOf(u) ==
    {i \in 1..Len(registry) : registry[i].public_key = req[u].keys[1].publicKey}

\* upload u takes the step of its registry put and goes on
Puts(u) == req[u].pc = "saveInDB" /\ req'[u].pc = "sign"

\* a step leaves the registry as it is, or it is the put of one upload and
\* adds the row of that upload behind the rows there are
RegistryStep ==
    \/ registry' = registry
    \/ \E u \in Uploads :
        /\ Puts(u)
        /\ registry' = Append(registry,
                              [public_key |-> req[u].keys[1].publicKey,
                               hash |-> req[u].hash[1]])

\* C15 (SpecSeq): registry writes.  The put of an /upload request adds
\* exactly one row, the (hash, public key) of that request, and leaves every
\* row there was as it is; an upload past its put has exactly one row; no
\* other step, and no step of a /validate request whatever its outcome,
\* changes the registry.
C15_RegistryWrites ==
    /\ [][RegistryStep]_vars
    /\ [][\A u \in Uploads : Puts(u) => registry' # registry]_vars
    /\ [][\A v \in Validates : req'[v] # req[v] => registry' = registry]_vars
    /\ [](\A u \in Uploads :
            req[u].keys # <<>>
                => Cardinality(RowsOf(u)) =
                    IF \/ req[u].pc \in {"sign", "download", "done"}
                       \/ req[u].pc = "rejected" /\ req[u].io = "append"
                    THEN 1 ELSE 0)

C15_Witness ==
    /\ Len(registry) = 2
    /\ registry[1].hash = registry[2].hash
    /\ \E v \in Validates : Settled(v) /\ req[v].response # <<>>

\* C16 (SpecSeq): one registry entry per content.  The registry never holds
\* two rows with the same hash: uploads of the same bytes share one row.
C16_OneEntryPerHash ==
    \A i \in 1..Len(registry), j \in 1..Len(registry) :
        registry[i].hash = registry[j].hash => i = j

\* the only '\n' of the file is its first byte
DelimiterAtZero(bytes) == HasNL(bytes) /\ LastNL(bytes) = 0

\* findSignatureIndex on the file of v took every byte after offset 0 as the
\* signature and cut the file to length 0 before it was hashed
StrippedAtZero(v) ==
    /\ req[v].signatureInfo = [found |-> TRUE,
                               signature |-> Tail(req[v].body),
                               position |-> 0]
    /\ req[v].signature = <<Tail(req[v].body)>>
    /\ req[v].hash = <<generateHash(<<>>)>>
    /\ Latest(v) => fs[PathOf(v)] = <<>>

\* C17 (SpecSeq): delimiter at byte 0.  For a file whose only '\n' is its
\* first byte, /validate takes every byte after offset 0 as the signature
\* and truncates the file to length 0; and when the file is what /upload
\* returned for the empty document, /validate answers "signature valid".
C17_DelimiterAtZero ==
    \A v \in Validates :
        (Validated(v) /\ DelimiterAtZero(req[v].body))
            => /\ StrippedAtZero(v)
               /\ \A u \in Uploads :
                    (/\ Downloaded(u)
                     /\ req[u].body = <<>>
                     /\ req[v].body = req[u].response[1].file)
                        => Answered(v, SignatureValid)

\* C18 (SpecSeq): connection release.  Whenever saveInDB or findInDB has
\* finished, by returning or by throwing, the client it acquired is back in
\* the pool: the number of clients held is zero.
C18_ClientsReleased == held = 0

==============================================================================
